---- MODULE Spec2Model ----
(***************************************************************************)
(* A model of fmp4-parse: the segment model (src/src/segment.rs) and the   *)
(* hybrid writer HybridMp4Writer (src/src/writer.rs).                      *)
(*                                                                         *)
(* Numbers.  TLC's integers are 32-bit signed, so a u32 cannot be held at  *)
(* its real width.  Every u32 of the program is modelled at U32Bits bits   *)
(* (arithmetic modulo 2^U32Bits); a u64 has twice that width and is never  *)
(* wrapped because no run of the model comes near 2^(2*U32Bits).           *)
(* A Rust u32 overflow panics when the build has overflow checks (debug)   *)
(* and wraps when it has not (release): overflow_checks is the build.      *)
(*                                                                         *)
(* Options.  Option<T> is a sequence of length at most one: <<>> is None   *)
(* and <<v>> is Some(v).                                                   *)
(*                                                                         *)
(* Output.  The output stream is a sequence of extents, each a run of      *)
(* bytes [from, from+len) of one written object; a byte position is the    *)
(* sum of the lengths before it.                                           *)
(***************************************************************************)
EXTENDS Integers, Sequences, FiniteSets, TLC

\* ------------------------------------------------------------------ bounds
\* Width of a modelled u32, in bits.
U32Bits == 6
\* Most chunks ingested by one writer over all add_fragment calls.
MaxTotalChunks == 2
\* Most chunks in a segment handed to the sample-table builder on its own.
MaxSegChunks == 3
\* Most injected output failures in one run of the writer.
MaxFaults == 1

U32Range == 2 ^ U32Bits
U32Max == U32Range - 1

\* mp4::HEADER_SIZE, the size of a box header in its 32-bit form.
HEADER_SIZE == 8
\* The size of a box header in its 64-bit (largesize) form.
LARGE_HEADER_SIZE == 16

\* ------------------------------------------------------------------ options
None == << >>
Some(v) == << v >>
IsSome(o) == o # << >>
UnwrapOr(o, d) == IF o = << >> THEN d ELSE o[1]

\* ------------------------------------------------------------------ helpers
RECURSIVE SumSeq(_)
SumSeq(s) == IF s = << >> THEN 0 ELSE Head(s) + SumSeq(Tail(s))

Repeat(v, n) == [i \in 1..n |-> v]

\* The positions of s whose element satisfies Test, in order.
SelectIdx(s, Test(_)) ==
  LET RECURSIVE Go(_)
      Go(i) == IF i > Len(s) THEN << >>
               ELSE IF Test(s[i]) THEN << i >> \o Go(i + 1) ELSE Go(i + 1)
  IN Go(1)

\* ------------------------------------------------------------------ boxes
\* A traf: tfhd.track_id, the three optional tfhd defaults, and the optional
\* trun with its sample_count and sample_sizes.
MkTraf(id, dur, size, sdi, trun) ==
  [track_id |-> id, default_sample_duration |-> dur, default_sample_size |-> size,
   sample_description_index |-> sdi, trun |-> trun]
MkTrun(count, sizes) == [sample_count |-> count, sample_sizes |-> sizes]

\* chunk.moof.trafs.iter().find(|traf| traf.tfhd.track_id == track_id)
RECURSIVE FindTraf(_, _)
FindTraf(trafs, track_id) ==
  IF trafs = << >> THEN None
  ELSE IF Head(trafs).track_id = track_id THEN Some(Head(trafs))
  ELSE FindTraf(Tail(trafs), track_id)

\* moof.box_size(): the header and the bytes of the fragment's boxes.
MoofBoxSize(moof) == HEADER_SIZE + moof.body

\* A chunk: one moof (its trafs and the size of its body) and the payload,
\* of which the model keeps the length.
MkChunk(trafs, body, mdat) == [moof |-> [trafs |-> trafs, body |-> body], mdat |-> mdat]

\* ------------------------------------------------- sample-table builder
\* MediaSegment::stts_entries: one entry per chunk, SttsEntry::default() for
\* a chunk without a traf of the track.
SttsOfChunk(chunk, track_id, default) ==
  LET found == FindTraf(chunk.moof.trafs, track_id) IN
  IF IsSome(found)
  THEN [sample_count |-> IF IsSome(found[1].trun) THEN found[1].trun[1].sample_count ELSE 0,
        sample_delta |-> UnwrapOr(found[1].default_sample_duration, default)]
  ELSE [sample_count |-> 0, sample_delta |-> 0]

stts_entries(chunks, track_id, default) ==
  [i \in 1..Len(chunks) |-> SttsOfChunk(chunks[i], track_id, default)]

\* A u32 addition: the sum, and whether it overflowed.
AddU32(a, b) == [value |-> (a + b) % U32Range, overflow |-> a + b > U32Max]
\* A u32 multiplication.
MulU32(a, b) == [value |-> (a * b) % U32Range, overflow |-> a * b > U32Max]

\* SamePair with the description index forgotten.
SamePairCountOnly(entry, spc, sdi) == entry.samples_per_chunk = spc

\* The test of the run-merge: does the last entry have the chunk's pair?
SamePair(entry, spc, sdi) ==
  entry.samples_per_chunk = spc /\ entry.sample_description_index = sdi

\* One iteration of the loop of MediaSegment::stsc_entries over a chunk that
\* has a traf of the track.  acc is [panic, entries, chunk_count, sample_count].
StscStep(acc, traf, default, checks) ==
  IF ~IsSome(traf.trun) THEN [acc EXCEPT !.panic = TRUE]   \* traf.trun.as_ref().unwrap()
  ELSE
    LET trun == traf.trun[1]
        sdi == UnwrapOr(traf.sample_description_index, default)
        merged == acc.entries # << >>
                  /\ SamePair(acc.entries[Len(acc.entries)], trun.sample_count, sdi)
        entries == IF merged THEN acc.entries
                   ELSE Append(acc.entries,
                          [sample_description_index |-> sdi,
                           first_chunk |-> acc.chunk_count,
                           samples_per_chunk |-> trun.sample_count,
                           first_sample |-> acc.sample_count])
        cc == AddU32(acc.chunk_count, 1)
        sc == AddU32(acc.sample_count, trun.sample_count)
    IN IF checks /\ cc.overflow THEN [acc EXCEPT !.panic = TRUE, !.entries = entries]
       ELSE IF checks /\ sc.overflow
            THEN [acc EXCEPT !.panic = TRUE, !.entries = entries, !.chunk_count = cc.value]
       ELSE [panic |-> FALSE, entries |-> entries,
             chunk_count |-> cc.value, sample_count |-> sc.value]

RECURSIVE StscLoop(_, _, _, _, _)
StscLoop(chunks, acc, track_id, default, checks) ==
  IF chunks = << >> \/ acc.panic THEN acc
  ELSE LET found == FindTraf(Head(chunks).moof.trafs, track_id) IN
       StscLoop(Tail(chunks),
                IF IsSome(found) THEN StscStep(acc, found[1], default, checks) ELSE acc,
                track_id, default, checks)

\* MediaSegment::stsc_entries: (entries, chunk_count, sample_count), or a panic.
\* chunk_offset and sample_offset are Options; checks is the build's overflow
\* checking.
stsc_entries(chunks, track_id, default, chunk_offset, sample_offset, checks) ==
  StscLoop(chunks,
           [panic |-> FALSE, entries |-> << >>,
            chunk_count |-> UnwrapOr(chunk_offset, 1),
            sample_count |-> UnwrapOr(sample_offset, 1)],
           track_id, default, checks)

\* StszOfTraf with the default size appended once instead of once per sample.
StszOfTrafDefaultOnce(traf, default) ==
  IF traf.trun[1].sample_sizes # << >> THEN traf.trun[1].sample_sizes
  ELSE << UnwrapOr(traf.default_sample_size, default) >>

\* The sizes MediaSegment::stsz_entries appends for one chunk that has a traf
\* with a trun.
StszOfTraf(traf, default) ==
  LET trun == traf.trun[1] IN
  IF trun.sample_sizes # << >> THEN trun.sample_sizes
  ELSE Repeat(UnwrapOr(traf.default_sample_size, default), trun.sample_count)

\* MediaSegment::stsz_entries: [panic, entries].
RECURSIVE stsz_entries(_, _, _)
stsz_entries(chunks, track_id, default) ==
  IF chunks = << >> THEN [panic |-> FALSE, entries |-> << >>]
  ELSE LET found == FindTraf(Head(chunks).moof.trafs, track_id) IN
       IF ~IsSome(found) THEN stsz_entries(Tail(chunks), track_id, default)
       ELSE IF ~IsSome(found[1].trun) THEN [panic |-> TRUE, entries |-> << >>]
       ELSE LET rest == stsz_entries(Tail(chunks), track_id, default) IN
            [panic |-> rest.panic,
             entries |-> StszOfTraf(found[1], default) \o rest.entries]

\* MediaSegment::get_size
ChunkSize(chunk) == MoofBoxSize(chunk.moof) + HEADER_SIZE + chunk.mdat
get_size(chunks) == SumSeq([i \in 1..Len(chunks) |-> ChunkSize(chunks[i])])

\* ------------------------------------------------------------ the output
\* An extent of the output: len bytes, from byte `from` on, of one written
\* object.  kind is "ftyp", "free" (the placeholder header), "moof", "mdat"
\* (a box header of type mdat, declaring `size`), "payload" or "moov"; obj is
\* the chunk a moof, mdat header or payload belongs to.
NoChunk == MkChunk(<< >>, 0, 0)
Extent(kind, obj, size, len) ==
  [kind |-> kind, obj |-> obj, size |-> size, from |-> 0, len |-> len]

\* writer.stream_position() of an output that was only appended to.
Pos(o) == SumSeq([i \in 1..Len(o) |-> o[i].len])

\* The bytes BoxHeader::new(name, size).write(..) emits: 8 bytes, or 16 (the
\* largesize form) when size does not fit a u32.
HeaderLen(size) == IF size > U32Max THEN LARGE_HEADER_SIZE ELSE HEADER_SIZE
HeaderExtent(kind, obj, size) == Extent(kind, obj, size, HeaderLen(size))

\* Appending n bytes of an object; write_all of no bytes writes nothing.
Emit(o, e) == IF e.len = 0 THEN o ELSE Append(o, e)

\* The first n bytes of o, and o without its first n bytes.
RECURSIVE TakeBytes(_, _)
TakeBytes(o, n) ==
  IF n <= 0 \/ o = << >> THEN << >>
  ELSE IF Head(o).len <= n THEN << Head(o) >> \o TakeBytes(Tail(o), n - Head(o).len)
  ELSE << [Head(o) EXCEPT !.len = n] >>

RECURSIVE DropBytes(_, _)
DropBytes(o, n) ==
  IF n <= 0 \/ o = << >> THEN o
  ELSE IF Head(o).len <= n THEN DropBytes(Tail(o), n - Head(o).len)
  ELSE << [Head(o) EXCEPT !.from = @ + n, !.len = @ - n] >> \o Tail(o)

\* seek(Start(pos)) and one write of extent e over what is there.
Overwrite(o, pos, e) == TakeBytes(o, pos) \o << e >> \o DropBytes(o, pos + e.len)

\* -------------------------------------------------------- the writer state
VARIABLES
  overflow_checks, \* the build: TRUE panics on integer overflow, FALSE wraps
  config,          \* FMp4Config: brands (their number) and tracks
  menu,            \* the chunks the caller's segments are made of
  status,          \* "new", "streaming", "finalized", "failed", "panicked"
  out,             \* the bytes of the output W
  free_pos,        \* HybridMp4Writer.free_pos
  free_size,       \* HybridMp4Writer.free_size
  tracks,          \* HybridMp4Writer.tracks: track_id -> Track
  moov,            \* the MoovBox finalize wrote, as an Option
  last,            \* the last call: its operation, arguments and result
  history,         \* every chunk handed to add_fragment so far, in order
  fault_budget,    \* the output failures the run may meet
  faults,          \* output failures met so far
  errors           \* add_fragment calls that returned an error so far

\* The sample-table builder called on its own: the arguments of the call and
\* what it returned.
VARIABLES b_in, b_out
\* A segment read, written and read again: the kind of segment, the input
\* stream, how far the round trip is, and the values on the way.
VARIABLES s_kind, s_in, s_stage, s_val, s_bytes, s_val2

bvars == << b_in, b_out >>
svars == << s_kind, s_in, s_stage, s_val, s_bytes, s_val2 >>
wvars == << overflow_checks, config, menu, status, out, free_pos, free_size,
            tracks, moov, last, history, fault_budget, faults, errors >>

\* FtypBox::box_size(): header, major brand, minor version, compatible brands.
FtypBoxSize(cfg) == HEADER_SIZE + 8 + 4 * cfg.brands

\* Track as HybridMp4Writer::initialize builds it.
NewTrack ==
  [stts_entries |-> << >>, stsc_entries |-> << >>, stsz_entries |-> << >>,
   co64_entries |-> << >>, chunk_offset |-> 1, sample_offset |-> 1]

NoCall == [op |-> "none", result |-> "ok", media |-> << >>, order |-> << >>]
Call(op, result, media, order) ==
  [op |-> op, result |-> result, media |-> media, order |-> order]

\* The failures a call may meet: 0 is none, k is the k-th write of the call.
FaultPoints(n) == IF faults < fault_budget THEN 0..n ELSE {0}

\* HybridMp4Writer::initialize.  fault 1 fails the ftyp write, 2 the
\* placeholder's; no writer is returned then.
Initialize(fault) ==
  /\ status = "new"
  /\ LET ftyp == Extent("ftyp", NoChunk, FtypBoxSize(config), FtypBoxSize(config))
         free == HeaderExtent("free", NoChunk, 0)
     IN
     /\ out' = IF fault = 1 THEN << >>
               ELSE IF fault = 2 THEN << ftyp >> ELSE << ftyp, free >>
     /\ free_pos' = IF fault = 0 THEN Pos(<< ftyp >>) ELSE 0
     /\ status' = IF fault = 0 THEN "streaming" ELSE "failed"
     /\ tracks' = IF fault = 0 THEN [id \in DOMAIN config.tracks |-> NewTrack]
                  ELSE tracks
     /\ faults' = IF fault = 0 THEN faults ELSE faults + 1
     /\ last' = Call("initialize", IF fault = 0 THEN "ok" ELSE "err", << >>, << >>)
  /\ free_size' = 0
  /\ UNCHANGED << overflow_checks, config, menu, fault_budget, moov, history, errors >>

\* ---------------------------------------------------------- add_fragment
\* The state threaded through one add_fragment call: the tracks, the output,
\* free_size, the writes attempted so far (w), how the call stands ("run",
\* "err" once a `?` returned, "panic"), and whether the call's failure fired.
\* fault is the number of the write that fails (0: none).

\* One iteration of `for chunk in media.chunks.iter()` for track id.
WriteChunk(st, id, chunk, fault) ==
  LET moofFails == st.w + 1 = fault
      out1 == Emit(st.out, Extent("moof", chunk, 0, MoofBoxSize(chunk.moof)))
      offset == Pos(out1) + HEADER_SIZE
      hdrFails == st.w + 2 = fault
      out2 == Emit(out1, HeaderExtent("mdat", chunk, HEADER_SIZE + chunk.mdat))
      \* write_all of an empty payload makes no write, so it cannot fail
      payloadWrites == IF chunk.mdat = 0 THEN 0 ELSE 1
      payloadFails == chunk.mdat # 0 /\ st.w + 3 = fault
      out3 == Emit(out2, Extent("payload", chunk, 0, chunk.mdat))
      pushed == [st.tracks EXCEPT ![id].co64_entries = Append(@, offset)]
  IN IF moofFails
     THEN [st EXCEPT !.w = @ + 1, !.result = "err", !.fired = TRUE]
     ELSE IF hdrFails
     THEN [st EXCEPT !.w = @ + 2, !.out = out1, !.result = "err", !.fired = TRUE]
     ELSE IF payloadFails
     THEN [st EXCEPT !.w = @ + 3, !.out = out2, !.fired = TRUE]
     ELSE [st EXCEPT !.w = @ + 2 + payloadWrites, !.out = out3, !.tracks = pushed]

RECURSIVE WriteChunks(_, _, _, _)
WriteChunks(st, id, chunks, fault) ==
  IF chunks = << >> \/ st.result # "run" THEN st
  ELSE WriteChunks(WriteChunk(st, id, Head(chunks), fault), id, Tail(chunks), fault)

\* StartSample with the persisted counter not handed over.
StartSampleNone(t) == None

\* The counters add_fragment hands to stsc_entries: the ones it stored after
\* the call before.
StartChunk(t) == Some(t.chunk_offset)
StartSample(t) == Some(t.sample_offset)

\* The tables and counters of track id after the three derivations, or the
\* track as the panic of stsc_entries leaves it.
DeriveTables(t, id, chunks) ==
  LET ext == config.tracks[id].extend
      stts == stts_entries(chunks, id, ext.default_sample_duration)
      stsc == stsc_entries(chunks, id, ext.default_sample_description_index,
                           StartChunk(t), StartSample(t), overflow_checks)
      stsz == stsz_entries(chunks, id, ext.default_sample_size)
      t1 == [t EXCEPT !.stts_entries = @ \o stts]
  IN IF stsc.panic THEN [panic |-> TRUE, track |-> t1]
     ELSE [panic |-> stsz.panic,
           track |-> [t1 EXCEPT !.chunk_offset = stsc.chunk_count,
                                !.sample_offset = stsc.sample_count,
                                !.stsc_entries = @ \o stsc.entries,
                                !.stsz_entries = @ \o stsz.entries]]

\* One iteration of `for (track_id, track) in self.tracks.iter_mut()`.
ProcessTrack(st, id, chunks, fault) ==
  LET d == DeriveTables(st.tracks[id], id, chunks)
      st1 == [st EXCEPT !.tracks[id] = d.track]
      st2 == WriteChunks(st1, id, chunks, fault)
  IN IF d.panic THEN [st1 EXCEPT !.result = "panic"]
     ELSE IF st2.result # "run" THEN st2
     ELSE [st2 EXCEPT !.free_size = @ + get_size(chunks)]

RECURSIVE ProcessTracks(_, _, _, _)
ProcessTracks(st, order, chunks, fault) ==
  IF order = << >> \/ st.result # "run" THEN st
  ELSE ProcessTracks(ProcessTrack(st, Head(order), chunks, fault),
                     Tail(order), chunks, fault)

\* The whole call, for one iteration order of the track map.
AddFragmentResult(chunks, order, fault) ==
  ProcessTracks([tracks |-> tracks, out |-> out, free_size |-> free_size,
                 w |-> 0, result |-> "run", fired |-> FALSE],
                order, chunks, fault)

\* The orders in which a HashMap of these keys may be iterated.
Orders(ids) ==
  { o \in [1..Cardinality(ids) -> ids] : \A i, j \in DOMAIN o : i # j => o[i] # o[j] }

\* The segments a caller can build from the menu with n chunks left.
Segments(n) ==
  UNION { [1..k -> menu] : k \in 0..n }

\* HybridMp4Writer::add_fragment(media)
AddFragment(chunks, order, fault) ==
  /\ status = "streaming"
  /\ LET r == AddFragmentResult(chunks, order, fault) IN
     /\ fault # 0 => r.fired
     /\ tracks' = r.tracks
     /\ out' = r.out
     /\ free_size' = r.free_size
     /\ status' = IF r.result = "panic" THEN "panicked" ELSE "streaming"
     /\ faults' = IF r.fired THEN faults + 1 ELSE faults
     /\ last' = Call("add_fragment", IF r.result = "run" THEN "ok" ELSE r.result,
                     chunks, order)
  /\ history' = history \o chunks
  /\ errors' = IF AddFragmentResult(chunks, order, fault).result = "err"
               THEN errors + 1 ELSE errors
  /\ UNCHANGED << overflow_checks, config, menu, fault_budget, free_pos, moov >>

\* -------------------------------------------------------------- finalize
\* MvhdBox::default(): the movie timescale and the first next_track_id.
MvhdTimescale == 1000
FirstTrackId == 1

\* (stts.sample_count * stts.sample_delta) as u64: the product is a u32.
SttsProduct(e) == MulU32(e.sample_count, e.sample_delta)

\* The duration finalize computes from a track's time-to-sample entries:
\* [panic, value].  The sum is a u64.
TrackDuration(stts) ==
  [panic |-> overflow_checks /\ \E i \in 1..Len(stts) : SttsProduct(stts[i]).overflow,
   value |-> SumSeq([i \in 1..Len(stts) |-> SttsProduct(stts[i]).value])]

\* The TrakBox finalize assembles for track id.
BuildTrak(id) ==
  LET t == tracks[id]
      duration == TrackDuration(t.stts_entries).value
  IN [track_id |-> config.tracks[id].extend.track_id,
      tkhd_duration |-> duration,
      mdhd_duration |-> duration,
      timescale |-> config.tracks[id].timescale,
      stts |-> t.stts_entries,
      stsc |-> t.stsc_entries,
      stsz |-> [sample_count |-> Len(t.stsz_entries) % U32Range,
                sample_sizes |-> t.stsz_entries],
      co64 |-> t.co64_entries]

\* One iteration of `while let Some(track) = self.tracks.get_mut(&next_track_id)`.
\* m is [panic, traks, moov_duration, next_track_id].
TrakStep(m) ==
  LET id == m.next_track_id
      dur == TrackDuration(tracks[id].stts_entries)
      ts == config.tracks[id].timescale
  IN IF dur.panic \/ ts = 0 THEN [m EXCEPT !.panic = TRUE]
     ELSE [panic |-> FALSE,
           traks |-> Append(m.traks, BuildTrak(id)),
           moov_duration |-> IF m.moov_duration < dur.value \div ts
                             THEN dur.value \div ts ELSE m.moov_duration,
           next_track_id |-> id + 1]

\* The test of the loop: is there a track under next_track_id?
HasNextTrack(m) == m.next_track_id \in DOMAIN tracks

RECURSIVE TrakLoop(_)
TrakLoop(m) ==
  IF m.panic \/ ~HasNextTrack(m) THEN m ELSE TrakLoop(TrakStep(m))

\* The MoovBox finalize builds: [panic, traks, duration, next_track_id].
BuildMoov ==
  LET m == TrakLoop([panic |-> FALSE, traks |-> << >>, moov_duration |-> 0,
                     next_track_id |-> FirstTrackId])
  IN [panic |-> m.panic, traks |-> m.traks,
      duration |-> m.moov_duration * MvhdTimescale,
      next_track_id |-> m.next_track_id]

\* MoovBox::box_size(): header, mvhd and the traks.
MoovBoxSize(m) == HEADER_SIZE + 4 * (1 + Len(m.traks))

\* The header finalize writes over the placeholder.
PatchHeader == HeaderExtent("mdat", NoChunk, HEADER_SIZE + free_size)

\* HybridMp4Writer::finalize.  fault 1 fails the moov write, 2 the seek,
\* 3 the write of the header; the writer is consumed in every case.
Finalize(fault) ==
  /\ status = "streaming"
  /\ BuildMoov.panic => fault = 0
  /\ LET m == BuildMoov
         out1 == Emit(out, Extent("moov", NoChunk, MoovBoxSize(m), MoovBoxSize(m)))
     IN
     /\ status' = IF m.panic THEN "panicked"
                  ELSE IF fault = 0 THEN "finalized" ELSE "failed"
     /\ out' = IF m.panic \/ fault = 1 THEN out
               ELSE IF fault \in {2, 3} THEN out1
               ELSE Overwrite(out1, free_pos, PatchHeader)
     /\ moov' = IF m.panic \/ fault = 1 THEN None
                ELSE Some([traks |-> m.traks, duration |-> m.duration,
                           next_track_id |-> m.next_track_id])
     /\ faults' = IF m.panic \/ fault = 0 THEN faults ELSE faults + 1
     /\ last' = Call("finalize",
                     IF m.panic THEN "panic" ELSE IF fault = 0 THEN "ok" ELSE "err",
                     << >>, << >>)
  /\ UNCHANGED << overflow_checks, config, menu, fault_budget, free_pos, free_size, tracks,
                  history, errors >>

\* ------------------------------------------------------------ the inputs
\* TrackData of a track: the timescale of its mdhd and the defaults of the
\* trex (TrackExtendData).
TrackDatas(id, timescales) ==
  { [timescale |-> ts,
     extend |-> [track_id |-> id, default_sample_description_index |-> 1,
                 default_sample_duration |-> 3, default_sample_size |-> 4]]
    : ts \in timescales }

\* FMp4Config values: one compatible brand, and tracks keyed by their own
\* track_id (FMp4Config::add_track).
Configs(idSets, timescales) ==
  UNION { { [brands |-> 1, tracks |-> t]
            : t \in { f \in [ids -> UNION { TrackDatas(id, timescales) : id \in ids }]
                      : \A id \in ids : f[id].extend.track_id = id } }
          : ids \in idSets }

\* The track_id sets of the configurations: none, one track, a lone track 2,
\* two contiguous tracks, two tracks with a gap.
TrackIdSets == { {}, {1}, {2}, {1, 2}, {1, 3} }
Timescales == { 0, 1, 2 }

\* A traf of a track with a run of `count` samples and no override.
PlainTraf(id, count) == MkTraf(id, None, None, None, Some(MkTrun(count, << >>)))

\* The chunks segments are built from.
ChunkPlain == MkChunk(<< PlainTraf(1, 2) >>, 4, 2)
ChunkTwoTracks ==
  MkChunk(<< MkTraf(1, Some(5), None, Some(2), Some(MkTrun(2, << 6, 7 >>))),
             MkTraf(2, None, Some(9), None, Some(MkTrun(1, << >>))) >>, 8, 0)
ChunkOtherTrack == MkChunk(<< PlainTraf(2, 2) >>, 4, 1)
ChunkHuge == MkChunk(<< MkTraf(1, Some(U32Max), None, None, Some(MkTrun(U32Max, << >>))) >>, 4, 0)
ChunkNoTrun == MkChunk(<< MkTraf(1, None, None, None, None) >>, 4, 0)
ChunkShortSizes == MkChunk(<< MkTraf(1, None, None, None, Some(MkTrun(2, << 6 >>))) >>, 4, 0)
ChunkBigPayload == MkChunk(<< >>, 4, U32Max - 7)
ChunkLongSamples == MkChunk(<< MkTraf(1, Some(U32Max), None, None, Some(MkTrun(2, << >>))) >>, 4, 0)

WriterMenu == { ChunkPlain, ChunkTwoTracks, ChunkOtherTrack, ChunkHuge,
                ChunkNoTrun, ChunkShortSizes, ChunkBigPayload }

\* ------------------------------------------------------ the segment model
\* A serialized segment is a flat sequence of boxes.  A box of the stream is
\* its header (name and declared size) and what follows it: for a typed box
\* (ftyp, moov, styp, moof) the contents the box codec decodes, named by val
\* (0 names the Default::default() value; mvex tells whether a moov holds an
\* mvex; bad marks contents the codec cannot decode), for an mdat the payload
\* bytes that are there.  A stream that ends inside a box ends with a box
\* whose data is shorter than its header declares.
Box(name, size, val, mvex, data, bad) ==
  [name |-> name, size |-> size, val |-> val, mvex |-> mvex, data |-> data, bad |-> bad]

\* Mp4Box::box_size() of a typed box, as the codec writes it in the header.
TypedBoxSize(val) == HEADER_SIZE + 4 * val
TypedBox(name, val, mvex) == Box(name, TypedBoxSize(val), val, mvex, << >>, FALSE)

SegError(kind) == [result |-> kind, styp |-> 0, chunks |-> << >>]

\* The moof arm of MediaSegment::read: the moof was decoded to moofVal and
\* rest is the stream behind it.  Gives the chunk, or the error.
ReadChunk(moofVal, rest) ==
  IF rest = << >> THEN [result |-> "Mp4Error", chunk |-> << >>]   \* BoxHeader::read(reader)?
  ELSE LET header == Head(rest) IN
       IF header.name # "mdat" THEN [result |-> "InvalidFormat", chunk |-> << >>]
       ELSE IF header.size < HEADER_SIZE
            THEN [result |-> "panic", chunk |-> << >>]     \* header.size as usize - 8
       ELSE IF Len(header.data) < header.size - HEADER_SIZE
            THEN [result |-> "IoError", chunk |-> << >>]   \* read_exact
       ELSE [result |-> "ok",
             chunk |-> << [moof |-> moofVal,
                           mdat |-> SubSeq(header.data, 1, header.size - HEADER_SIZE)] >>]

\* MediaSegment::read: the loop `while let Ok(header) = BoxHeader::read(reader)`.
RECURSIVE ReadMediaLoop(_, _)
ReadMediaLoop(stream, media) ==
  IF stream = << >> THEN media
  ELSE LET header == Head(stream) IN
       IF header.name = "styp"
       THEN IF header.bad THEN SegError("Mp4Error")
            ELSE ReadMediaLoop(Tail(stream), [media EXCEPT !.styp = header.val])
       ELSE IF header.name = "moof"
       THEN IF header.bad THEN SegError("Mp4Error")
            ELSE LET c == ReadChunk(header.val, Tail(stream)) IN
                 IF c.result # "ok" THEN SegError(c.result)
                 ELSE ReadMediaLoop(Tail(Tail(stream)),
                                    [media EXCEPT !.chunks = @ \o c.chunk])
       ELSE ReadMediaLoop(Tail(stream), media)              \* mp4::skip_box

ReadMedia(stream) ==
  ReadMediaLoop(stream, [result |-> "ok", styp |-> 0, chunks |-> << >>])

\* MdatHeaderSize with the header's own bytes left out of the size.
MdatHeaderSizePayloadOnly(mdat) == Len(mdat)

\* The size in the mdat header Chunk::write gives a payload.
MdatHeaderSize(mdat) == HEADER_SIZE + Len(mdat)

\* Chunk::write
WriteChunkBoxes(chunk) ==
  << TypedBox("moof", chunk.moof, FALSE),
     Box("mdat", MdatHeaderSize(chunk.mdat), 0, FALSE, chunk.mdat, FALSE) >>

RECURSIVE WriteChunksBoxes(_)
WriteChunksBoxes(chunks) ==
  IF chunks = << >> THEN << >>
  ELSE WriteChunkBoxes(Head(chunks)) \o WriteChunksBoxes(Tail(chunks))

\* MediaSegment::write
WriteMedia(media) ==
  << TypedBox("styp", media.styp, FALSE) >> \o WriteChunksBoxes(media.chunks)

InitError(kind) == [result |-> kind, ftyp |-> 0, moov |-> [val |-> 0, mvex |-> FALSE]]

\* InitialSegment::read: the loop, then the mvex test.
RECURSIVE ReadInitialLoop(_, _)
ReadInitialLoop(stream, data) ==
  IF stream = << >> THEN data
  ELSE LET header == Head(stream) IN
       IF header.name = "ftyp"
       THEN IF header.bad THEN InitError("Mp4Error")
            ELSE ReadInitialLoop(Tail(stream), [data EXCEPT !.ftyp = header.val])
       ELSE IF header.name = "moov"
       THEN IF header.bad THEN InitError("Mp4Error")
            ELSE ReadInitialLoop(Tail(stream),
                   [data EXCEPT !.moov = [val |-> header.val, mvex |-> header.mvex]])
       ELSE ReadInitialLoop(Tail(stream), data)             \* mp4::skip_box

ReadInitial(stream) ==
  LET data == ReadInitialLoop(stream, InitError("ok")) IN
  IF data.result # "ok" THEN data
  ELSE IF ~data.moov.mvex THEN InitError("InvalidFormat")
  ELSE data

\* InitialSegment::write
WriteInitial(init) ==
  << TypedBox("ftyp", init.ftyp, FALSE), TypedBox("moov", init.moov.val, init.moov.mvex) >>

\* Segment::read and Segment::write of either kind of segment.
ReadSegment(kind, stream) ==
  IF kind = "media" THEN ReadMedia(stream) ELSE ReadInitial(stream)
WriteSegment(kind, x) ==
  IF kind = "media" THEN WriteMedia(x) ELSE WriteInitial(x)

\* ------------------------------------------------------------ the specs
vars == << wvars, bvars, svars >>

IdleWriter ==
  /\ overflow_checks = FALSE
  /\ config = [brands |-> 0, tracks |-> << >>]
  /\ menu = {}
  /\ fault_budget = 0
  /\ status = "idle"
  /\ out = << >>
  /\ free_pos = 0
  /\ free_size = 0
  /\ tracks = << >>
  /\ moov = None
  /\ last = NoCall
  /\ history = << >>
  /\ faults = 0
  /\ errors = 0

IdleBuilder == b_in = << >> /\ b_out = None

IdleSegment ==
  /\ s_kind = "none"
  /\ s_in = << >>
  /\ s_stage = "idle"
  /\ s_val = << >>
  /\ s_bytes = << >>
  /\ s_val2 = << >>

\* --- the writer
InitWriter(cfgs, chunkMenu, budget) ==
  /\ overflow_checks \in BOOLEAN
  /\ config \in cfgs
  /\ menu = chunkMenu
  /\ fault_budget = budget
  /\ status = "new"
  /\ out = << >>
  /\ free_pos = 0
  /\ free_size = 0
  /\ tracks = << >>
  /\ moov = None
  /\ last = NoCall
  /\ history = << >>
  /\ faults = 0
  /\ errors = 0
  /\ IdleBuilder
  /\ IdleSegment

DoInitialize ==
  /\ \E fault \in FaultPoints(2) : Initialize(fault)
  /\ UNCHANGED << bvars, svars >>

DoAddFragment ==
  /\ \E chunks \in Segments(MaxTotalChunks - Len(history)) :
       \E order \in Orders(DOMAIN tracks) :
         \E fault \in FaultPoints(3 * Len(chunks) * Len(order)) :
           AddFragment(chunks, order, fault)
  /\ UNCHANGED << bvars, svars >>

DoFinalize ==
  /\ \E fault \in FaultPoints(3) : Finalize(fault)
  /\ UNCHANGED << bvars, svars >>

Next == DoInitialize \/ DoAddFragment \/ DoFinalize

\* The writer on an output that never fails, over every kind of chunk.
Init == InitWriter(Configs(TrackIdSets, {1}), WriterMenu, 0)
Spec == Init /\ [][Next]_vars

\* The writer over every configuration, timescales included.
FinalizeMenu == { ChunkPlain, ChunkTwoTracks, ChunkLongSamples }
InitFinalize == InitWriter(Configs(TrackIdSets, Timescales), FinalizeMenu, 0)
SpecFinalize == InitFinalize /\ [][Next]_vars

\* The writer on an output that may fail.
FaultMenu == { ChunkPlain, ChunkTwoTracks }
InitFaults == InitWriter(Configs({ {1, 2} }, {1}), FaultMenu, MaxFaults)
SpecFaults == InitFaults /\ [][Next]_vars

\* --- the sample-table builder, called on its own
ChunkThree == MkChunk(<< MkTraf(1, None, Some(9), None, Some(MkTrun(3, << >>))) >>, 4, 0)
BuilderMenu == { ChunkPlain, ChunkTwoTracks, ChunkThree, ChunkOtherTrack,
                 ChunkHuge, ChunkNoTrun, ChunkShortSizes }

\* The running counters a call starts from: (chunk_offset, sample_offset).
BuilderStarts == { << None, None >>, << Some(3), Some(5) >>, << Some(U32Max), Some(2) >> }

BuilderInputs ==
  { [chunks |-> c, track_id |-> id, default |-> 1,
     chunk_offset |-> st[1], sample_offset |-> st[2], checks |-> k]
    : c \in UNION { [1..n -> BuilderMenu] : n \in 0..MaxSegChunks },
      id \in {1, 2}, st \in BuilderStarts, k \in BOOLEAN }

InitBuilder ==
  /\ b_in \in BuilderInputs
  /\ b_out = None
  /\ IdleWriter
  /\ IdleSegment

CallStts ==
  /\ DOMAIN b_in # {}
  /\ b_out = None
  /\ b_out' = Some([fn |-> "stts", panic |-> FALSE,
                    entries |-> stts_entries(b_in.chunks, b_in.track_id, b_in.default)])
  /\ UNCHANGED << b_in, wvars, svars >>

CallStsc ==
  /\ DOMAIN b_in # {}
  /\ b_out = None
  /\ b_out' = Some([fn |-> "stsc"] @@
                   stsc_entries(b_in.chunks, b_in.track_id, b_in.default,
                                b_in.chunk_offset, b_in.sample_offset, b_in.checks))
  /\ UNCHANGED << b_in, wvars, svars >>

CallStsz ==
  /\ DOMAIN b_in # {}
  /\ b_out = None
  /\ b_out' = Some([fn |-> "stsz"] @@
                   stsz_entries(b_in.chunks, b_in.track_id, b_in.default))
  /\ UNCHANGED << b_in, wvars, svars >>

NextBuilder == CallStts \/ CallStsc \/ CallStsz
SpecBuilder == InitBuilder /\ [][NextBuilder]_vars

\* --- the builder on its own and inside the writer
InitTables == Init \/ InitBuilder
NextTables ==
  DoInitialize \/ DoAddFragment \/ DoFinalize \/ CallStts \/ CallStsc \/ CallStsz
SpecTables == InitTables /\ [][NextTables]_vars

\* --- a segment read, written and read again
\* Most boxes in an input stream.
MaxBoxes == 3

MdatFull(data) == Box("mdat", HEADER_SIZE + Len(data), 0, FALSE, data, FALSE)
\* An mdat the stream ends in: its header declares more than is there.
MdatTruncated == Box("mdat", HEADER_SIZE + 2, 0, FALSE, << 7 >>, FALSE)
\* An mdat whose header declares less than a header.
MdatUndersized == Box("mdat", 4, 0, FALSE, << >>, FALSE)
FreeBox == TypedBox("free", 1, FALSE)

MediaBoxes ==
  { TypedBox("styp", 1, FALSE), TypedBox("moof", 1, FALSE), TypedBox("moof", 2, FALSE),
    Box("moof", TypedBoxSize(1), 1, FALSE, << >>, TRUE),
    MdatFull(<< >>), MdatFull(<< 7 >>), MdatTruncated, MdatUndersized, FreeBox }

InitialBoxes ==
  { TypedBox("ftyp", 1, FALSE), TypedBox("moov", 1, TRUE), TypedBox("moov", 2, FALSE),
    Box("moov", TypedBoxSize(1), 1, TRUE, << >>, TRUE), FreeBox }

\* A stream is a sequence of whole boxes; only its last box can be cut short,
\* and the undersized mdat is met only where the reader looks for an mdat.
WellFormedStream(st) ==
  \A i \in DOMAIN st :
    /\ st[i] = MdatTruncated => i = Len(st)
    /\ st[i] = MdatUndersized => i > 1 /\ st[i-1].name = "moof" /\ ~st[i-1].bad

Streams(boxes) ==
  { st \in UNION { [1..n -> boxes] : n \in 0..MaxBoxes } : WellFormedStream(st) }

InitSegment ==
  /\ s_kind \in { "media", "initial" }
  /\ s_in \in Streams(IF s_kind = "media" THEN MediaBoxes ELSE InitialBoxes)
  /\ s_stage = "input"
  /\ s_val = << >>
  /\ s_bytes = << >>
  /\ s_val2 = << >>
  /\ IdleWriter
  /\ IdleBuilder

SegRead ==
  /\ s_stage = "input"
  /\ s_val' = ReadSegment(s_kind, s_in)
  /\ s_stage' = "read"
  /\ UNCHANGED << s_kind, s_in, s_bytes, s_val2, wvars, bvars >>

SegWrite ==
  /\ s_stage = "read"
  /\ s_val.result = "ok"
  /\ s_bytes' = WriteSegment(s_kind, s_val)
  /\ s_stage' = "written"
  /\ UNCHANGED << s_kind, s_in, s_val, s_val2, wvars, bvars >>

SegReread ==
  /\ s_stage = "written"
  /\ s_val2' = ReadSegment(s_kind, s_bytes)
  /\ s_stage' = "reread"
  /\ UNCHANGED << s_kind, s_in, s_val, s_bytes, wvars, bvars >>

NextSegment == SegRead \/ SegWrite \/ SegReread
SpecSegment == InitSegment /\ [][NextSegment]_vars

\* ================================================================ claims

CarryingChunks == SelectIdx([i \in 1..Len(b_in.chunks) |-> i],
                    LAMBDA i : IsSome(FindTraf(b_in.chunks[i].moof.trafs, b_in.track_id)))
CarriedTraf(k) == FindTraf(b_in.chunks[CarryingChunks[k]].moof.trafs, b_in.track_id)[1]
CarriedCount(k) == CarriedTraf(k).trun[1].sample_count
CarriedPair(k) ==
  << CarriedCount(k), UnwrapOr(CarriedTraf(k).sample_description_index, b_in.default) >>
\* The carrying chunks whose pair differs from the carrying chunk before.
RunStarts == SelectIdx([k \in 1..Len(CarryingChunks) |-> k],
               LAMBDA k : k = 1 \/ CarriedPair(k) # CarriedPair(k - 1))
StscReturned == b_out # None /\ b_out[1].fn = "stsc" /\ ~b_out[1].panic

\* C6: stsc_entries gives consecutive chunks of the track with the same
\* (samples_per_chunk, sample_description_index) one entry, and starts a new
\* entry at each chunk whose pair differs from the chunk before, with
\* first_chunk and first_sample the running counters before that chunk is
\* counted (the counters are u32).
C6_RunMerge ==
  StscReturned =>
    LET entries == b_out[1].entries
        c0 == UnwrapOr(b_in.chunk_offset, 1)
        s0 == UnwrapOr(b_in.sample_offset, 1)
    IN /\ Len(entries) = Len(RunStarts)
       /\ \A j \in 1..Len(RunStarts) :
            LET k == RunStarts[j] IN
            /\ entries[j].first_chunk = (c0 + (k - 1)) % U32Range
            /\ entries[j].first_sample =
                 (s0 + SumSeq([i \in 1..(k - 1) |-> CarriedCount(i)])) % U32Range
            /\ << entries[j].samples_per_chunk, entries[j].sample_description_index >>
                 = CarriedPair(k)

\* Three chunks of the track: the first two with the same pair, merged, the
\* third with another description index, starting the second entry.
C6_Witness ==
  /\ StscReturned
  /\ Len(CarryingChunks) = 3
  /\ CarriedPair(1) = CarriedPair(2)
  /\ CarriedPair(3)[1] = CarriedPair(2)[1]
  /\ CarriedPair(3)[2] # CarriedPair(2)[2]
  /\ Len(b_out[1].entries) = 2

\* ------------------------------------------------------ C2, C3, C4, C5
\* The extent that begins at byte pos of o.
ExtentAt(o, pos) == Head(DropBytes(o, pos))
\* The position at which the moov box begins.
MoovStart(o) ==
  LET i == CHOOSE j \in DOMAIN o : o[j].kind = "moov" IN Pos(SubSeq(o, 1, i - 1))
Settled == status \in { "streaming", "finalized" }

\* C2: after a successful finalize the 8 bytes at the recorded placeholder
\* position are an mdat box header whose size is 8 plus the bytes written
\* between the end of the placeholder and the start of the moov box.
C2_PlaceholderPatched ==
  status = "finalized" =>
    LET hdr == ExtentAt(out, free_pos) IN
    /\ hdr.kind = "mdat" /\ hdr.from = 0 /\ hdr.len = HEADER_SIZE
    /\ hdr.size = HEADER_SIZE + (MoovStart(out) - (free_pos + HEADER_SIZE))

\* The bytes of a segment's chunks, each once and in order: moof, mdat
\* header, payload.
RECURSIVE SerializedChunks(_)
SerializedChunks(chunks) ==
  IF chunks = << >> THEN << >>
  ELSE LET c == Head(chunks) IN
       Emit(<< Extent("moof", c, 0, MoofBoxSize(c.moof)),
               HeaderExtent("mdat", c, HEADER_SIZE + c.mdat) >>,
            Extent("payload", c, 0, c.mdat))
       \o SerializedChunks(Tail(chunks))

\* C3: whatever the number of tracks, an add_fragment call that returns
\* normally has appended to the output every chunk of its segment exactly
\* once, in order, as moof, mdat header, payload.
C3_EachChunkOnce ==
  [][ ( /\ status = "streaming" /\ status' = "streaming"
        /\ last'.op = "add_fragment" /\ last'.result = "ok" )
      => out' = out \o SerializedChunks(last'.media) ]_vars

\* The chunks handed to add_fragment so far that have a traf of track id.
CarryingHistory(id) ==
  { i \in DOMAIN history : IsSome(FindTraf(history[i].moof.trafs, id)) }

\* C4: a track's co64 table has one offset per ingested chunk that carried a
\* traf of the track, and none for the other chunks.
C4_Co64PerCarryingChunk ==
  Settled => \A id \in DOMAIN tracks :
               Len(tracks[id].co64_entries) = Cardinality(CarryingHistory(id))

\* The sample count of the run a chunk carries for track id (0: none).
RunSampleCount(chunk, id) ==
  LET found == FindTraf(chunk.moof.trafs, id) IN
  IF IsSome(found) /\ IsSome(found[1].trun) THEN found[1].trun[1].sample_count ELSE 0
IngestedSamples(id) ==
  SumSeq([i \in 1..Len(history) |-> RunSampleCount(history[i], id)])
\* Every run of the chunk has no explicit sizes or one per sample.
WellFormedSizes(chunk) ==
  \A i \in DOMAIN chunk.moof.trafs :
    LET trun == chunk.moof.trafs[i].trun IN
    IsSome(trun) => \/ trun[1].sample_sizes = << >>
                    \/ Len(trun[1].sample_sizes) = trun[1].sample_count

ExactDuration(stts) ==
  SumSeq([i \in 1..Len(stts) |-> stts[i].sample_count * stts[i].sample_delta])
FinalizePanicked == last.op = "finalize" /\ last.result = "panic"
SomeTimescaleZero == \E id \in DOMAIN tracks : config.tracks[id].timescale = 0
SomeProductOverflows ==
  \E id \in DOMAIN tracks : \E i \in DOMAIN tracks[id].stts_entries :
    SttsProduct(tracks[id].stts_entries[i]).overflow

\* C7: every track finalize emits has tkhd and mdhd durations equal to the
\* exact sum of sample_count x sample_delta over its time-to-sample entries,
\* and no product of two 32-bit values makes finalize fail.
C7_ExactDuration ==
  /\ status = "finalized" =>
       \A i \in DOMAIN moov[1].traks :
         LET t == moov[1].traks[i] IN
         /\ t.tkhd_duration = ExactDuration(t.stts)
         /\ t.mdhd_duration = ExactDuration(t.stts)
  /\ FinalizePanicked => SomeTimescaleZero

\* The largest element of a set of naturals (0 for the empty set).
SetMax(S) == IF S = {} THEN 0 ELSE CHOOSE m \in S : \A x \in S : x <= m

\* C8: finalize completes whatever the tracks' timescales, and sets the
\* movie duration to the largest floor(track duration / track timescale)
\* over all the writer's tracks, times the movie timescale.  (The track
\* duration is the one finalize computed.)
C8_MovieDuration ==
  /\ FinalizePanicked => SomeProductOverflows
  /\ (status = "finalized" /\ ~SomeTimescaleZero) =>
       moov[1].duration =
         SetMax({ TrackDuration(tracks[id].stts_entries).value
                    \div config.tracks[id].timescale : id \in DOMAIN tracks })
         * MvhdTimescale

\* C9: finalize emits one trak per track of the track map, in ascending
\* track_id order, gaps in the ids or not.
C9_EveryTrackEmitted ==
  status = "finalized" =>
    LET traks == moov[1].traks IN
    /\ Len(traks) = Cardinality(DOMAIN tracks)
    /\ { traks[i].track_id : i \in DOMAIN traks } = DOMAIN tracks
    /\ \A i, j \in DOMAIN traks : i < j => traks[i].track_id < traks[j].track_id

\* C10: both counters of every track are at least 1 in every state, are 1
\* right after initialize, and no step decreases either.
C10_Counters ==
  /\ [](\A id \in DOMAIN tracks :
          tracks[id].chunk_offset >= 1 /\ tracks[id].sample_offset >= 1)
  /\ []((last.op = "initialize" /\ last.result = "ok") =>
          \A id \in DOMAIN tracks :
            tracks[id].chunk_offset = 1 /\ tracks[id].sample_offset = 1)
  /\ [][\A id \in DOMAIN tracks \cap DOMAIN tracks' :
          /\ tracks'[id].chunk_offset >= tracks[id].chunk_offset
          /\ tracks'[id].sample_offset >= tracks[id].sample_offset]_vars

\* ---------------------------------------------------------------- C11
\* The chunks handed to add_fragment so far that have a traf of track id, as
\* positions of history in order, and the run and the description index of
\* the k-th of them.
CarryingSeq(id) ==
  SelectIdx([i \in 1..Len(history) |-> i],
            LAMBDA i : IsSome(FindTraf(history[i].moof.trafs, id)))
HistTraf(id, k) == FindTraf(history[CarryingSeq(id)[k]].moof.trafs, id)[1]
HistCount(id, k) == RunSampleCount(history[CarryingSeq(id)[k]], id)
HistSdi(id, k) ==
  UnwrapOr(HistTraf(id, k).sample_description_index,
           config.tracks[id].extend.default_sample_description_index)
\* The counters of track id before its k-th chunk is counted: both start at
\* 1; the counters are u32.
ChunkCounterBefore(id, k) == (1 + (k - 1)) % U32Range
SampleCounterBefore(id, k) ==
  (1 + SumSeq([i \in 1..(k - 1) |-> HistCount(id, i)])) % U32Range

\* C11: after add_fragment calls that all returned normally, every entry of a
\* track's sample-to-chunk table begins at one of the track's chunks, later
\* than the entry before, and records as first_chunk and first_sample the
\* values the track's counters had before that chunk was counted, across the
\* calls, with that chunk's samples_per_chunk and description index; the
\* track's first chunk begins the first entry.
C11_StscStartsAcrossCalls ==
  (Settled /\ errors = 0) =>
    \A id \in DOMAIN tracks :
      LET entries == tracks[id].stsc_entries
          n == Len(CarryingSeq(id))
      IN /\ (n > 0) => (entries # << >> /\ entries[1].first_chunk = ChunkCounterBefore(id, 1))
         /\ \A j \in DOMAIN entries :
              \E k \in 1..n :
                /\ entries[j].first_chunk = ChunkCounterBefore(id, k)
                /\ entries[j].first_sample = SampleCounterBefore(id, k)
                /\ entries[j].samples_per_chunk = HistCount(id, k)
                /\ entries[j].sample_description_index = HistSdi(id, k)
                /\ (j > 1) => entries[j - 1].first_chunk < entries[j].first_chunk

\* Two one-chunk segments of 2 samples each, with different description
\* indices: track 1 has the entries (1, 1, 2) and (2, 3, 2).
C11_Witness ==
  /\ status = "streaming"
  /\ 1 \in DOMAIN tracks
  /\ history = << ChunkTwoTracks, ChunkPlain >>
  /\ last.media = << ChunkPlain >>
  /\ Len(tracks[1].stsc_entries) = 2
  /\ tracks[1].stsc_entries[2].first_chunk = 2
  /\ tracks[1].stsc_entries[2].first_sample = 3
  /\ tracks[1].stsc_entries[1].sample_description_index
       # tracks[1].stsc_entries[2].sample_description_index

\* ---------------------------------------------------------------- C12
\* C12: an add_fragment call in which a write to the output failed (a moof
\* box, an mdat header or the payload of a chunk) returns an error.
C12_WriteFailurePropagates ==
  [][ (last'.op = "add_fragment" /\ status = "streaming" /\ faults' = faults + 1)
      => last'.result = "err" ]_vars

\* ---------------------------------------------------------------- C13
\* The input stream has a moof that no mdat follows: another box does, or
\* the input ends.
MoofWithoutMdat ==
  \E i \in DOMAIN s_in :
    s_in[i].name = "moof" /\ (i = Len(s_in) \/ s_in[i + 1].name # "mdat")
\* Nothing else is wrong with the input: every box decodes and every mdat
\* is whole.
NoOtherDefect ==
  \A i \in DOMAIN s_in :
    ~s_in[i].bad /\ s_in[i] # MdatTruncated /\ s_in[i] # MdatUndersized
MediaWasRead == s_kind = "media" /\ s_stage # "input"

\* C13: MediaSegment::read of an input in which a moof is not immediately
\* followed by an mdat (another box follows, or the input ends) fails with
\* InvalidFormat; an input in which every moof is followed by its mdat reads
\* without error, whatever other boxes it holds.
C13_InvalidFormat ==
  (MediaWasRead /\ NoOtherDefect) =>
    /\ MoofWithoutMdat => s_val.result = "InvalidFormat"
    /\ ~MoofWithoutMdat => s_val.result = "ok"

\* ---------------------------------------------------------------- C14
\* The extent that ends at byte pos of o, as far as it lies before pos.
ExtentBefore(o, pos) ==
  LET before == TakeBytes(o, pos) IN before[Len(before)]
\* Byte pos of o is the first byte after the whole mdat header of a chunk, and
\* that chunk's payload are the bytes from pos on.
AfterMdatHeader(o, pos) ==
  /\ pos > 0 /\ pos <= Pos(o)
  /\ LET hdr == ExtentBefore(o, pos) IN
     /\ hdr.kind = "mdat" /\ hdr.obj # NoChunk
     /\ hdr.from = 0 /\ hdr.len = HeaderLen(hdr.size)
     /\ hdr.obj.mdat > 0 =>
          /\ pos < Pos(o)
          /\ ExtentAt(o, pos) = Extent("payload", hdr.obj, 0, hdr.obj.mdat)

\* C14: every value of a track's chunk-offset table is the position right
\* after the mdat header of a chunk add_fragment wrote, where that chunk's
\* payload lies in the file, and the offsets of a table increase strictly.
C14_OffsetsPointAtPayload ==
  Settled =>
    \A id \in DOMAIN tracks :
      LET co64 == tracks[id].co64_entries IN
      /\ \A i \in DOMAIN co64 : AfterMdatHeader(out, co64[i])
      /\ \A i, j \in DOMAIN co64 : i < j => co64[i] < co64[j]

\* ---------------------------------------------------------------- C15
\* C15: stsc_entries over a segment of k chunks, started with chunk counter
\* c and sample counter s, returns the chunk counter c + k, one step for every
\* chunk of the segment whether it carries a run of the track or not, and
\* the sample counter s plus the run sample counts of the chunks (the
\* counters are u32).
C15_CountersAdvancePerChunk ==
  StscReturned =>
    /\ b_out[1].chunk_count =
         (UnwrapOr(b_in.chunk_offset, 1) + Len(b_in.chunks)) % U32Range
    /\ b_out[1].sample_count =
         (UnwrapOr(b_in.sample_offset, 1)
          + SumSeq([i \in 1..Len(b_in.chunks) |->
                      RunSampleCount(b_in.chunks[i], b_in.track_id)])) % U32Range

\* ---------------------------------------------------------------- C16
\* What the claim gives as the entry of one chunk.
ExpectedStts(chunk, track_id, default) ==
  LET found == FindTraf(chunk.moof.trafs, track_id) IN
  IF IsSome(found)
  THEN [sample_count |-> RunSampleCount(chunk, track_id),
        sample_delta |-> IF found[1].default_sample_duration = None THEN default
                         ELSE found[1].default_sample_duration[1]]
  ELSE [sample_count |-> 0, sample_delta |-> 0]
SttsReturned == b_out # None /\ b_out[1].fn = "stts"

\* C16: stts_entries returns one entry per chunk of the segment, in chunk
\* order: the run sample count with the traf's default duration, or else the
\* track default, for a chunk carrying the track, and an all-zero entry for a
\* chunk that does not; and after any add_fragment calls every track's
\* time-to-sample table is as long as the number of chunks ingested: the
\* chunks of all the calls when none failed, and at any rate one number for
\* all the tracks.
C16_SttsPerChunk ==
  /\ SttsReturned =>
       /\ Len(b_out[1].entries) = Len(b_in.chunks)
       /\ \A i \in DOMAIN b_in.chunks :
            b_out[1].entries[i] = ExpectedStts(b_in.chunks[i], b_in.track_id, b_in.default)
  /\ Settled =>
       \E n \in 0..Len(history) :
         /\ errors = 0 => n = Len(history)
         /\ \A id \in DOMAIN tracks : Len(tracks[id].stts_entries) = n

\* ---------------------------------------------------------------- C17
\* C17: whatever add_fragment calls were made, no two adjacent entries of a
\* track's sample-to-chunk table have the same (samples_per_chunk,
\* sample_description_index) pair, entries of different calls included.
C17_NoAdjacentEqualPairs ==
  Settled =>
    \A id \in DOMAIN tracks :
      LET entries == tracks[id].stsc_entries IN
      \A j \in 2..Len(entries) :
        ~SamePair(entries[j - 1], entries[j].samples_per_chunk,
                  entries[j].sample_description_index)

\* ---------------------------------------------------------------- C18
\* The chunk has a traf of track id that has no trun.
Runless(chunk, id) ==
  LET found == FindTraf(chunk.moof.trafs, id) IN
  IsSome(found) /\ found[1].trun = None
HasRunless(chunks, ids) ==
  \E i \in DOMAIN chunks : \E id \in ids : Runless(chunks[i], id)
\* The chunks without those that have such a traf for a track of ids.
WithoutRunless(chunks, ids) ==
  LET kept == SelectIdx(chunks, LAMBDA c : \A id \in ids : ~Runless(c, id))
  IN [k \in 1..Len(kept) |-> chunks[kept[k]]]

\* C18: a chunk whose traf of the target track has no trun makes no
\* derivation fail: stts_entries gives it an entry with sample_count 0,
\* stsc_entries and stsz_entries return what they return for the segment
\* without the chunk, and add_fragment on a segment with such a chunk returns
\* as it does on the segment without it.
C18_RunlessTrafHandled ==
  /\ []( (b_out # None /\ HasRunless(b_in.chunks, { b_in.track_id })) =>
          LET rest == WithoutRunless(b_in.chunks, { b_in.track_id }) IN
          /\ b_out[1].fn = "stts" =>
               \A i \in DOMAIN b_in.chunks :
                 Runless(b_in.chunks[i], b_in.track_id)
                   => b_out[1].entries[i].sample_count = 0
          /\ b_out[1].fn = "stsc" =>
               b_out[1] = [fn |-> "stsc"] @@
                 stsc_entries(rest, b_in.track_id, b_in.default,
                              b_in.chunk_offset, b_in.sample_offset, b_in.checks)
          /\ b_out[1].fn = "stsz" =>
               b_out[1] = [fn |-> "stsz"] @@ stsz_entries(rest, b_in.track_id, b_in.default) )
  /\ [][ ( /\ status = "streaming" /\ last'.op = "add_fragment"
           /\ faults' = faults
           /\ HasRunless(last'.media, DOMAIN tracks) )
         => LET r == AddFragmentResult(WithoutRunless(last'.media, DOMAIN tracks),
                                       last'.order, 0).result
            IN last'.result = IF r = "run" THEN "ok" ELSE r ]_vars

\* ---------------------------------------------------------------- C19
\* C19: an add_fragment call that returns an error leaves every track's
\* tables and counters and the running byte total as they were before the
\* call; one that returns success has given every track the entries of
\* every chunk of the segment.
C19_AllOrNothing ==
  [][ (status = "streaming" /\ last'.op = "add_fragment") =>
        /\ last'.result = "err" => (tracks' = tracks /\ free_size' = free_size)
        /\ last'.result = "ok" =>
             \A id \in DOMAIN tracks :
               Len(tracks'[id].stts_entries)
                 = Len(tracks[id].stts_entries) + Len(last'.media) ]_vars

\* ---------------------------------------------------------------- C20
\* The samples of the chunks a track's sample-to-chunk table covers: each
\* entry covers the chunks from its first_chunk up to the next entry's, the
\* last entry up to the chunk counter.
StscCoveredSamples(t) ==
  LET entries == t.stsc_entries IN
  SumSeq([j \in 1..Len(entries) |->
            entries[j].samples_per_chunk
            * ((IF j < Len(entries) THEN entries[j + 1].first_chunk ELSE t.chunk_offset)
               - entries[j].first_chunk)])
SttsSamples(t) ==
  SumSeq([i \in 1..Len(t.stts_entries) |-> t.stts_entries[i].sample_count])

\* C20: after add_fragment calls that all succeeded, on segments whose runs
\* each have no explicit sizes or exactly sample_count of them, for every
\* track the sample counter less 1, the length of the sample-size table, the
\* sum of sample_count over the time-to-sample table and the samples of the
\* chunks the sample-to-chunk table covers are the same number.
C20_TablesAgree ==
  ( /\ Settled
    /\ errors = 0
    /\ \A i \in DOMAIN history : WellFormedSizes(history[i]) )
  => \A id \in DOMAIN tracks :
       LET t == tracks[id] IN
       /\ t.sample_offset - 1 = Len(t.stsz_entries)
       /\ Len(t.stsz_entries) = SttsSamples(t)
       /\ SttsSamples(t) = StscCoveredSamples(t)

\* ---------------------------------------------------------------- C21
\* C21: after add_fragment calls that all succeeded, for every track the
\* chunk counter less 1 is the length of the chunk-offset table, every
\* sample-to-chunk entry's first_chunk is a position of that table, and the
\* offset at that position is the one of a chunk that carries a run of the
\* track with the entry's samples_per_chunk.
C21_ChunkNumbering ==
  (Settled /\ errors = 0) =>
    \A id \in DOMAIN tracks :
      LET t == tracks[id] IN
      /\ t.chunk_offset - 1 = Len(t.co64_entries)
      /\ \A j \in DOMAIN t.stsc_entries :
           LET n == t.stsc_entries[j].first_chunk IN
           /\ n \in 1..Len(t.co64_entries)
           /\ RunSampleCount(ExtentBefore(out, t.co64_entries[n]).obj, id)
                = t.stsc_entries[j].samples_per_chunk

\* ---------------------------------------------------------------- C22
\* C22: a finalize that succeeds leaves every byte written before it as it
\* was, but for the 8 bytes of the placeholder: the bytes before the
\* placeholder and the bytes from its end to the start of the moov (the moof
\* boxes, mdat headers and payloads of add_fragment) are unchanged, however
\* many they are.
C22_PatchFrame ==
  [][ (status = "streaming" /\ status' = "finalized") =>
        LET written == TakeBytes(out', Pos(out)) IN
        /\ TakeBytes(written, free_pos) = TakeBytes(out, free_pos)
        /\ DropBytes(written, free_pos + HEADER_SIZE)
             = DropBytes(out, free_pos + HEADER_SIZE) ]_vars

\* ---------------------------------------------------------------- C23
\* C23: an add_fragment call that returns normally leaves the same tables,
\* counters and byte total in every track, and the same output bytes,
\* whichever the order in which it iterates the track map; so a fixed
\* configuration and sequence of segments give one result.
C23_OrderIndependent ==
  [][ ( /\ status = "streaming" /\ last'.op = "add_fragment"
        /\ last'.result = "ok" /\ faults' = faults )
      => \A order \in Orders(DOMAIN tracks) :
           LET r == AddFragmentResult(last'.media, order, 0) IN
           /\ r.tracks = tracks'
           /\ r.out = out'
           /\ r.free_size = free_size' ]_vars

====
